---- MODULE Spec2Model ----
(***************************************************************************)
(* Model of src/tts_app.py: the TTSWorker thread (command loop, load_model, *)
(* generate_speech) and the OfflineTTSApp controller (user handlers, the    *)
(* playback state machine and process_worker_results), connected by the     *)
(* command queue and the result queue.                                      *)
(*                                                                          *)
(* Python None is the string "None"; a falsy path is "None" or "".          *)
(* The worker executes one command per step: a command's results reach the  *)
(* controller in the order put, and the Log results before its last result  *)
(* change no controller state, so a poll between two puts of one command    *)
(* is a poll before the command.                                            *)
(* process_worker_results handles one result per step and stays in its      *)
(* while-loop (cpc = "draining") until it finds the result queue empty; no  *)
(* user handler runs meanwhile, as Tk runs one callback at a time.          *)
(* The log Text widget and the status label are presentation and are left   *)
(* out, and with them on_ff, which only writes to the log widget.           *)
(***************************************************************************)
EXTENDS Integers, Sequences, FiniteSets, TLC

\* ---------------------------------------------------------------- bounds
\* Commands enqueued in one run (caps the command ids).
MaxCmds == 3

\* ------------------------------------------------------------- constants
None == "None"

Amy == "Female (Amy)"
Ryan == "Male (Ryan)"

\* The catalog, MODELS (the url is not used by any modelled decision).
MODELS ==
  (Amy :> [archive |-> "vits-piper-en_US-amy-low.tar.bz2",
           dir     |-> "vits-piper-en_US-amy-low",
           onnx    |-> "en_US-amy-low.onnx"]) @@
  (Ryan :> [archive |-> "vits-piper-en_US-ryan-low.tar.bz2",
            dir     |-> "vits-piper-en_US-ryan-low",
            onnx    |-> "en_US-ryan-low.onnx"])

\* os.path.join(model_info['dir'], model_info['onnx'])
model_onnx(voice_name) == MODELS[voice_name].dir \o "/" \o MODELS[voice_name].onnx

\* Inputs of the handlers.
VoiceNames == DOMAIN MODELS \cup {"Nonexistent"}
Texts == {"", "hello"}
DialogPaths == {"", "/out.wav"}

\* tempfile.mkstemp(suffix=".wav"): the n-th call returns a name no earlier call returned.
mkstemp(n) == "/tmp/tmp" \o ToString(n) \o ".wav"

\* Python truthiness of a path: None and "" are falsy.
Falsy(p) == p = None \/ p = ""

VARIABLES
  \* TTSWorker
  command_queue, result_queue, tts, current_voice_name, running,
  wpc,                \* "init" before run()'s greeting, "loop" in the loop, "done" after it,
                      \* "killed" when the interpreter exit stopped the daemon thread
  unfinished_tasks,   \* queue.Queue's count behind task_done()
  \* environment of the worker
  HAS_TTS, HAS_PYGAME, files, tmp_count,
  \* OfflineTTSApp
  audio_file, is_playing, is_paused,
  btn_gen_play, btn_pause, btn_resume, btn_stop, btn_ff, btn_save,
  voice_combo,
  cpc,                \* "idle", or "draining" inside process_worker_results' loop
  closed,             \* on_closing has destroyed the window
  init_voice,         \* the after(500, change_voice("Female (Amy)")) callback is pending
  \* history (not program state)
  nextId,             \* id given to the next enqueued command
  observed,           \* command id of the result the controller processed last
  emitted,            \* the types of result put on the result queue so far
  wlast,              \* the command the worker executed last, the results it put, the
                      \* collaborators it called and the worker state it started from
  wprev,              \* the command it executed before that, whether it succeeded and
                      \* the engine it started from
  clast               \* the controller handler that ran last, and the state it ran from

vars == <<command_queue, result_queue, tts, current_voice_name, running, wpc,
          unfinished_tasks, HAS_TTS, HAS_PYGAME, files, tmp_count,
          audio_file, is_playing, is_paused,
          btn_gen_play, btn_pause, btn_resume, btn_stop, btn_ff, btn_save,
          voice_combo, cpc, closed, init_voice,
          nextId, observed, emitted, wlast, wprev, clast>>

workerVars == <<tts, current_voice_name, running, wpc, files, tmp_count>>
mediaVars == <<audio_file, is_playing, is_paused, btn_pause, btn_resume, btn_stop, btn_ff>>
appVars == <<mediaVars, btn_gen_play, btn_save, voice_combo, cpc, closed, init_voice>>
envVars == <<HAS_TTS, HAS_PYGAME>>

\* ------------------------------------------------------------ messages
\* Commands: the dicts put on the command queue (absent keys read as None by cmd.get).
\* `id` is the position of the command in the order of enqueuing (history).
Cmd(action, voice_name, text, file_path, id) ==
  [action |-> action, voice_name |-> voice_name, text |-> text, file_path |-> file_path,
   id |-> id]
NoCmd == Cmd("none", None, None, None, 0)

\* Results: the dicts put on the result queue.
Log(msg) == [type |-> "log", msg |-> msg, voice |-> None, file_path |-> None, is_temp |-> FALSE]
ModelLoaded(voice) == [type |-> "model_loaded", msg |-> None, voice |-> voice, file_path |-> None, is_temp |-> FALSE]
GenerationComplete(file_path, is_temp) ==
  [type |-> "generation_complete", msg |-> None, voice |-> None, file_path |-> file_path, is_temp |-> is_temp]

NoRes == [type |-> "none", msg |-> None, voice |-> None, file_path |-> None, is_temp |-> FALSE]
\* A result with the id of the command that produced it (history; 0 for run()'s greeting).
Tag(res, id) == [type |-> res.type, msg |-> res.msg, voice |-> res.voice,
                 file_path |-> res.file_path, is_temp |-> res.is_temp, cid |-> id]

\* queue.Queue: put appends, get takes the oldest element.
QPut(q, x) == Append(q, x)
QGetNewest(q) == q[Len(q)]
QGet(q) == Head(q)
QRest(q) == Tail(q)

\* ------------------------------------------------------ the collaborators
\* Each collaborator is the set of outcomes its call can have; `calls` lists the
\* collaborators a command invoked and `failed` those of them that raised or
\* returned False (history, for the claims).

\* The progress callbacks of one urlretrieve, each logging "Downloading: N%": a run
\* of them, which one Log stands for, or none when it raises before the first block.
Progress == <<Log("Downloading: N%")>>

\* download_file(url, filename, callback): True and the archive on disk, or False
\* (urlretrieve raised) and no archive. (An archive left partly written is an archive
\* that extract_file fails on, which the failing extract_file of a later load covers.)
download_file(fs, voice_name) ==
  LET archive == MODELS[voice_name].archive IN
  {[ok |-> TRUE, logs |-> Progress, files |-> fs \cup {archive}]}
  \cup
  {[ok |-> FALSE, logs |-> logs, files |-> fs] : logs \in {<<>>, Progress}}

\* extract_file(filename): True and the model file on disk, or False (tarfile raised),
\* after which the members extracted so far may include the model file.
extract_file(fs, voice_name) ==
  {[ok |-> TRUE, files |-> fs \cup {model_onnx(voice_name)}]}
  \cup
  {[ok |-> FALSE, files |-> f] : f \in {fs, fs \cup {model_onnx(voice_name)}}}

\* sherpa_onnx.OfflineTts(config): an engine bound to the model file, or an exception;
\* without the model file on disk it can only raise.
OfflineTts(fs, voice_name) ==
  {"raise"} \cup (IF model_onnx(voice_name) \in fs THEN {model_onnx(voice_name)} ELSE {})

\* What executing one command leaves behind.
Outcome(out, engine, name, fs, tmp, calls, failed) ==
  [out |-> out, tts |-> engine, current_voice_name |-> name, files |-> fs,
   tmp_count |-> tmp, calls |-> calls, failed |-> failed]

\* os.path.exists(model_onnx), line 126
InstalledNever(fs, voice_name) == FALSE
Installed(fs, voice_name) == model_onnx(voice_name) \in fs

\* TTSWorker.load_model, lines 124-133: check/download. `go` tells whether load_model
\* goes on to the engine (it returns only when the download failed).
Acquire(voice_name) ==
  LET archive == MODELS[voice_name].archive IN
  IF Installed(files, voice_name)
  THEN {[go |-> TRUE, logs |-> <<>>, files |-> files, calls |-> {}, failed |-> {}]}
  ELSE
    LET downloads ==
          IF archive \notin files
          THEN {[ok |-> d.ok, logs |-> d.logs, files |-> d.files, calls |-> {"download_file"}] :
                  d \in download_file(files, voice_name)}
          ELSE {[ok |-> TRUE, logs |-> <<>>, files |-> files, calls |-> {}]}
    IN UNION {
         IF ~d.ok
         THEN {[go |-> FALSE,
                logs |-> <<Log("Downloading " \o voice_name \o "...")>> \o d.logs
                         \o <<Log("Download failed.")>>,
                files |-> d.files, calls |-> d.calls, failed |-> {"download_file"}]}
         ELSE {[go |-> TRUE,
                logs |-> <<Log("Downloading " \o voice_name \o "...")>> \o d.logs
                         \o <<Log("Extracting...")>>,
                files |-> x.files, calls |-> d.calls \cup {"extract_file"},
                failed |-> IF x.ok THEN {} ELSE {"extract_file"}] :
                 x \in extract_file(d.files, voice_name)}
         : d \in downloads }

\* lines 154-155: the engine constructor raised; the engine and its voice name stay.
EngineRaisedUninstalls(a) ==
  Outcome(a.logs \o <<Log("Loading Engine..."), Log("Error: e")>>,
          None, None, a.files, tmp_count, a.calls \cup {"OfflineTts"},
          a.failed \cup {"OfflineTts"})
EngineRaised(a) ==
  Outcome(a.logs \o <<Log("Loading Engine..."), Log("Error: e")>>,
          tts, current_voice_name, a.files, tmp_count, a.calls \cup {"OfflineTts"},
          a.failed \cup {"OfflineTts"})

\* lines 149-152: the engine constructed is installed under the voice's name.
EngineLoadedKeepsName(voice_name, a, e) ==
  Outcome(a.logs \o <<Log("Loading Engine..."), Log("Loaded: " \o voice_name),
                      ModelLoaded(voice_name)>>,
          e, current_voice_name, a.files, tmp_count, a.calls \cup {"OfflineTts"}, a.failed)
EngineLoaded(voice_name, a, e) ==
  Outcome(a.logs \o <<Log("Loading Engine..."), Log("Loaded: " \o voice_name),
                      ModelLoaded(voice_name)>>,
          e, voice_name, a.files, tmp_count, a.calls \cup {"OfflineTts"}, a.failed)

\* TTSWorker.load_model, lines 135-155: construct and install the engine.
LoadEngine(voice_name, a) ==
  {IF e = "raise"
   THEN EngineRaised(a)
   ELSE EngineLoaded(voice_name, a, e)
   : e \in OfflineTts(a.files, voice_name)}
\* line 114: the engine of this voice is the one installed.
AlreadyLoadedNever(voice_name) == FALSE
AlreadyLoaded(voice_name) == tts # None /\ current_voice_name = voice_name

\* line 121: what load_model logs for a name that is not in MODELS.
UnknownVoiceSilent == <<Log("Unknown voice.")>>
UnknownVoice == <<Log("Error: Unknown voice.")>>

\* TTSWorker.load_model(voice_name): the outcomes of the whole method.
load_model(voice_name) ==
  IF ~HAS_TTS
  THEN {Outcome(<<Log("Error: Sherpa-ONNX missing.")>>,
                tts, current_voice_name, files, tmp_count, {}, {})}
  ELSE IF AlreadyLoaded(voice_name)
  THEN {Outcome(<<Log("Voice '" \o voice_name \o "' already loaded."), ModelLoaded(voice_name)>>,
                tts, current_voice_name, files, tmp_count, {}, {})}
  ELSE IF voice_name \notin DOMAIN MODELS
  THEN {Outcome(UnknownVoice, tts, current_voice_name, files, tmp_count, {}, {})}
  ELSE UNION {
         IF ~a.go
         THEN {Outcome(a.logs, tts, current_voice_name, a.files, tmp_count, a.calls, a.failed)}
         ELSE LoadEngine(voice_name, a)
         : a \in Acquire(voice_name) }

\* line 158: `if not self.tts`
NotLoadedNever == FALSE
NotLoaded == tts = None

\* TTSWorker.generate_speech(text, file_path): the outcomes of the whole method.
\* self.tts.generate and wavfile.write each return or raise.
generate_speech(text, file_path) ==
  IF NotLoaded
  THEN {Outcome(<<Log("Model not loaded.")>>, tts, current_voice_name, files, tmp_count, {}, {})}
  ELSE
    LET is_temp == Falsy(file_path)
        path    == IF is_temp THEN mkstemp(tmp_count + 1) ELSE file_path
        tmp     == IF is_temp THEN tmp_count + 1 ELSE tmp_count
        called  == {"generate", "write"} \cup (IF is_temp THEN {"mkstemp"} ELSE {})
    IN
    { Outcome(<<Log("Generating..."), Log("Gen Error: e")>>,
              tts, current_voice_name, files, tmp_count, {"generate"}, {"generate"}),
      Outcome(<<Log("Generating..."), Log("Done"), Log("Gen Error: e")>>,
              tts, current_voice_name, files, tmp, called, {"write"}),
      Outcome(<<Log("Generating..."), Log("Done"), GenerationComplete(path, is_temp)>>,
              tts, current_voice_name, files, tmp, called, {}) }

\* ------------------------------------------------------------ the worker
\* TTSWorker.run, line 89: the greeting, before the loop.
WorkerStart ==
  /\ wpc = "init"
  /\ result_queue' = QPut(result_queue, Tag(Log("Ready. Select a voice to begin."), 0))
  /\ emitted' = emitted \cup {"log"}
  /\ wpc' = "loop"
  /\ UNCHANGED <<command_queue, tts, current_voice_name, running, unfinished_tasks,
                 files, tmp_count, envVars, appVars, nextId, observed,
                 wlast, wprev, clast>>

\* The method a command dispatches to, lines 97-102.
Dispatch(cmd) ==
  IF cmd.action = "load_model" THEN load_model(cmd.voice_name)
  ELSE IF cmd.action = "generate" THEN generate_speech(cmd.text, cmd.file_path)
  ELSE {Outcome(<<>>, tts, current_voice_name, files, tmp_count, {}, {})}

\* line 103: the action that ends the loop.
IsQuitAlways(cmd) == TRUE
IsQuitNever(cmd) == FALSE
IsQuit(cmd) == cmd.action = "quit"

\* The terminal result of a command is its last one: model_loaded or generation_complete.
Succeeded(out) == out # <<>> /\ out[Len(out)].type # "log"
Summary(w) == [action |-> w.cmd.action, voice_name |-> w.cmd.voice_name, ok |-> Succeeded(w.out),
               tts |-> w.tts]

\* The results of a command, put on the result queue in the order produced.
PutAll(q, out, id) == q \o [i \in 1..Len(out) |-> Tag(out[i], id)]

\* TTSWorker.run, lines 91-107: one turn of the loop that finds a command: the
\* command is taken, its method runs to its return, and task_done is called; quit
\* leaves the loop instead. (A turn that times out on the empty queue changes
\* nothing and is a stuttering step.)
WorkerGet ==
  /\ wpc = "loop" /\ running
  /\ command_queue # <<>>
  /\ LET cmd == QGet(command_queue) IN
     /\ command_queue' = QRest(command_queue)
     /\ wprev' = Summary(wlast)
     /\ IF IsQuit(cmd)
        THEN /\ running' = FALSE
             /\ wpc' = "done"
             /\ wlast' = [cmd |-> cmd, out |-> <<>>, calls |-> {}, failed |-> {}, tts |-> tts,
                          current_voice_name |-> current_voice_name, files |-> files,
                          tmp_count |-> tmp_count]
             /\ UNCHANGED <<result_queue, emitted, tts, current_voice_name,
                            unfinished_tasks, files, tmp_count>>
        ELSE \E o \in Dispatch(cmd) :
             /\ tts' = o.tts
             /\ current_voice_name' = o.current_voice_name
             /\ files' = o.files
             /\ tmp_count' = o.tmp_count
             /\ result_queue' = PutAll(result_queue, o.out, cmd.id)
             /\ emitted' = emitted \cup {o.out[i].type : i \in 1..Len(o.out)}
             /\ unfinished_tasks' = unfinished_tasks - 1
             /\ wlast' = [cmd |-> cmd, out |-> o.out, calls |-> o.calls, failed |-> o.failed,
                          tts |-> tts,
                          current_voice_name |-> current_voice_name, files |-> files,
                          tmp_count |-> tmp_count]
             /\ UNCHANGED <<running, wpc>>
  /\ UNCHANGED <<envVars, appVars, nextId, observed, clast>>

WorkerNext == WorkerStart \/ WorkerGet

\* -------------------------------------------------------- the controller
\* The playback state and the four transport buttons (TRUE is tk.NORMAL).
Media ==
  [is_playing |-> is_playing, is_paused |-> is_paused, audio_file |-> audio_file,
   btn_pause |-> btn_pause, btn_resume |-> btn_resume, btn_stop |-> btn_stop,
   btn_ff |-> btn_ff]

SetMedia(m) ==
  /\ is_playing' = m.is_playing
  /\ is_paused' = m.is_paused
  /\ audio_file' = m.audio_file
  /\ btn_pause' = m.btn_pause
  /\ btn_resume' = m.btn_resume
  /\ btn_stop' = m.btn_stop
  /\ btn_ff' = m.btn_ff

\* OfflineTTSApp.update_media_buttons
update_media_buttons_swapped(m) ==
  [m EXCEPT !.btn_pause = m.is_paused,
            !.btn_resume = m.is_playing /\ ~m.is_paused,
            !.btn_stop = m.is_playing,
            !.btn_ff = m.is_playing]
update_media_buttons(m) ==
  [m EXCEPT !.btn_pause = m.is_playing /\ ~m.is_paused,
            !.btn_resume = m.is_paused,
            !.btn_stop = m.is_playing,
            !.btn_ff = m.is_playing]

\* OfflineTTSApp.load_and_play_audio(path); `ok` is FALSE when pygame's load or play raises.
load_and_play_audio_keeps_pause(m, path, ok) ==
  IF ~HAS_PYGAME THEN m
  ELSE IF ok
       THEN update_media_buttons([m EXCEPT !.is_playing = TRUE, !.audio_file = path])
       ELSE m
load_and_play_audio(m, path, ok) ==
  IF ~HAS_PYGAME THEN m
  ELSE IF ok
       THEN update_media_buttons([m EXCEPT !.is_playing = TRUE, !.is_paused = FALSE,
                                           !.audio_file = path])
       ELSE m

\* OfflineTTSApp.on_pause
on_pause(m) ==
  IF HAS_PYGAME /\ m.is_playing /\ ~m.is_paused
  THEN update_media_buttons([m EXCEPT !.is_paused = TRUE])
  ELSE m

\* OfflineTTSApp.on_resume
on_resume(m) ==
  IF HAS_PYGAME /\ m.is_paused
  THEN update_media_buttons([m EXCEPT !.is_paused = FALSE])
  ELSE m

\* OfflineTTSApp.on_stop
on_stop_pauses(m) ==
  IF HAS_PYGAME
  THEN update_media_buttons([m EXCEPT !.is_playing = FALSE, !.is_paused = TRUE])
  ELSE m
on_stop(m) ==
  IF HAS_PYGAME
  THEN update_media_buttons([m EXCEPT !.is_playing = FALSE, !.is_paused = FALSE])
  ELSE m

\* cmd_queue.put of the controller: the command gets the next id.
Enqueue(action, voice_name, text, file_path) ==
  /\ command_queue' = QPut(command_queue, Cmd(action, voice_name, text, file_path, nextId))
  /\ unfinished_tasks' = unfinished_tasks + 1
  /\ nextId' = nextId + 1

\* The handler that ran last, the state it ran from and the result it handled.
\* `ok` is FALSE when the audio device raised in it.
Ran(op, res, ok) ==
  clast' = [op |-> op, pre |-> Media, gen |-> btn_gen_play, ok |-> ok,
            res |-> [type |-> res.type, file_path |-> res.file_path, is_temp |-> res.is_temp]]

\* A user handler can run: the window exists and no other callback is running.
UserTurn == ~closed /\ cpc = "idle"

\* OfflineTTSApp.change_voice(voice_name)
change_voice(voice_name) ==
  /\ nextId <= MaxCmds
  /\ btn_gen_play' = FALSE
  /\ Enqueue("load_model", voice_name, None, None)
  /\ Ran("change_voice", NoRes, TRUE)
  /\ UNCHANGED <<result_queue, workerVars, envVars, mediaVars, btn_save, cpc, closed,
                 observed, emitted, wlast, wprev>>

\* __init__, line 214: the default voice, loaded once by an after() callback.
InitVoice ==
  /\ UserTurn /\ init_voice
  /\ init_voice' = FALSE
  /\ change_voice(Amy)
  /\ UNCHANGED voice_combo

\* <<ComboboxSelected>>, line 226: the user picks a voice of the catalog.
ChangeVoice ==
  /\ UserTurn
  /\ \E voice_name \in DOMAIN MODELS :
       /\ voice_combo' = voice_name
       /\ change_voice(voice_name)
  /\ UNCHANGED init_voice

\* OfflineTTSApp.on_gen_play, reachable while btn_gen_play is enabled; `text` is the
\* stripped content of the text box.
on_gen_play ==
  /\ UserTurn /\ btn_gen_play
  /\ \E text \in Texts :
       IF text # ""
       THEN /\ nextId <= MaxCmds
            /\ SetMedia(on_stop(Media))
            /\ btn_gen_play' = FALSE
            /\ Enqueue("generate", None, text, None)
            /\ Ran("on_gen_play", NoRes, TRUE)
            /\ UNCHANGED <<result_queue, workerVars, envVars, btn_save, voice_combo, cpc,
                           closed, init_voice, observed, emitted, wlast, wprev>>
       ELSE UNCHANGED vars

\* OfflineTTSApp.on_save, reachable while btn_save is enabled; `f` is what the file
\* dialog returns ("" when cancelled).
on_save ==
  /\ UserTurn /\ btn_save
  /\ \E text \in Texts, f \in DialogPaths :
       IF text # "" /\ ~Falsy(f)
       THEN /\ nextId <= MaxCmds
            /\ Enqueue("generate", None, text, f)
            /\ Ran("on_save", NoRes, TRUE)
            /\ UNCHANGED <<result_queue, workerVars, envVars, appVars,
                           observed, emitted, wlast, wprev>>
       ELSE UNCHANGED vars

\* A transport handler, reachable while its button is enabled.
Transport(op, m) ==
  /\ UserTurn
  /\ SetMedia(m)
  /\ Ran(op, NoRes, TRUE)
  /\ UNCHANGED <<command_queue, result_queue, unfinished_tasks, workerVars, envVars,
                 btn_gen_play, btn_save, voice_combo, cpc, closed, init_voice,
                 nextId, observed, emitted, wlast, wprev>>

OnPause == btn_pause /\ Transport("on_pause", on_pause(Media))
OnResume == btn_resume /\ Transport("on_resume", on_resume(Media))
OnStop == btn_stop /\ Transport("on_stop", on_stop(Media))

\* OfflineTTSApp.on_closing: quit is enqueued and the window destroyed, which ends
\* the after() callbacks.
on_closing ==
  /\ UserTurn
  /\ closed' = TRUE
  /\ Enqueue("quit", None, None, None)
  /\ Ran("on_closing", NoRes, TRUE)
  /\ UNCHANGED <<result_queue, workerVars, envVars, mediaVars, btn_gen_play, btn_save,
                 voice_combo, cpc, init_voice, observed, emitted, wlast, wprev>>

\* __main__, line 413, with TTSWorker.__init__, line 82: destroy() ends mainloop, the
\* script ends and the interpreter exits without joining the worker, which as a
\* daemon thread is stopped where it is: it takes no further command.
InterpreterExit ==
  /\ closed
  /\ wpc \in {"init", "loop"}
  /\ wpc' = "killed"
  /\ UNCHANGED <<command_queue, result_queue, tts, current_voice_name, running,
                 unfinished_tasks, files, tmp_count, envVars, appVars,
                 nextId, observed, emitted, wlast, wprev, clast>>

\* process_worker_results, lines 388-392: a temporary file is played, a saved one
\* is announced in a message box.
PlayAlways(m, res, ok) == load_and_play_audio(m, res.file_path, ok)
PlayOrAnnounce(m, res, ok) ==
  IF res.is_temp THEN load_and_play_audio(m, res.file_path, ok) ELSE m

\* OfflineTTSApp.process_worker_results, lines 373-392: one turn of the while loop
\* that finds a result.
ProcessResult ==
  /\ ~closed
  /\ result_queue # <<>>
  /\ LET res == QGet(result_queue) IN
    \E ok \in IF res.type = "generation_complete" /\ res.is_temp /\ ~Falsy(res.file_path)
               THEN BOOLEAN ELSE {TRUE} :
     /\ result_queue' = QRest(result_queue)
     /\ observed' = res.cid
     /\ Ran("process_worker_results", res, ok)
     /\ IF res.type = "log"
        THEN /\ cpc' = "draining"
             /\ UNCHANGED <<mediaVars, btn_gen_play, btn_save, voice_combo>>
        ELSE IF res.type = "model_loaded"
        THEN /\ btn_gen_play' = TRUE
             /\ btn_save' = TRUE
             /\ voice_combo' = res.voice
             /\ cpc' = "draining"
             /\ UNCHANGED mediaVars
        ELSE /\ btn_gen_play' = TRUE
             /\ UNCHANGED <<btn_save, voice_combo>>
             /\ IF Falsy(res.file_path)
                THEN cpc' = "idle" /\ UNCHANGED mediaVars
                ELSE /\ cpc' = "draining"
                     /\ SetMedia(PlayOrAnnounce(Media, res, ok))
  /\ UNCHANGED <<command_queue, unfinished_tasks, workerVars, envVars, closed, init_voice,
                 nextId, emitted, wlast, wprev>>

\* process_worker_results, lines 394-397: get_nowait raises queue.Empty, the loop
\* ends and the next poll is scheduled.
ProcessEmpty ==
  /\ ~closed
  /\ cpc = "draining"
  /\ result_queue = <<>>
  /\ cpc' = "idle"
  /\ UNCHANGED <<command_queue, result_queue, unfinished_tasks, workerVars, envVars,
                 mediaVars, btn_gen_play, btn_save, voice_combo, closed, init_voice,
                 nextId, observed, emitted, wlast, wprev, clast>>

\* ------------------------------------------------------- specifications
\* After OfflineTTSApp.__init__ and TTSWorker.__init__: every button disabled, the
\* combobox on the default voice, both queues empty, no engine. The imports that
\* set HAS_TTS and HAS_PYGAME are the environment's; on disk there is no model file,
\* or the default voice's from an earlier run.
Init ==
  /\ command_queue = <<>> /\ result_queue = <<>>
  /\ tts = None /\ current_voice_name = None
  /\ running = TRUE /\ wpc = "init" /\ unfinished_tasks = 0
  /\ HAS_TTS \in BOOLEAN /\ HAS_PYGAME \in BOOLEAN
  /\ files \in {{}, {model_onnx(Amy)}}
  /\ tmp_count = 0
  /\ audio_file = None /\ is_playing = FALSE /\ is_paused = FALSE
  /\ btn_gen_play = FALSE /\ btn_pause = FALSE /\ btn_resume = FALSE
  /\ btn_stop = FALSE /\ btn_ff = FALSE /\ btn_save = FALSE
  /\ voice_combo = Amy
  /\ cpc = "idle" /\ closed = FALSE /\ init_voice = TRUE
  /\ nextId = 1 /\ observed = 0 /\ emitted = {}
  /\ wlast = [cmd |-> NoCmd, out |-> <<>>, calls |-> {}, failed |-> {}, tts |-> None,
              current_voice_name |-> None, files |-> {}, tmp_count |-> 0]
  /\ wprev = [action |-> "none", voice_name |-> None, ok |-> FALSE, tts |-> None]
  /\ clast = [op |-> "none", pre |-> Media, gen |-> FALSE, ok |-> TRUE,
              res |-> [type |-> "none", file_path |-> None, is_temp |-> FALSE]]

AppNext ==
  \/ InitVoice \/ ChangeVoice \/ on_gen_play \/ on_save
  \/ OnPause \/ OnResume \/ OnStop \/ on_closing
  \/ ProcessResult \/ ProcessEmpty
  \/ InterpreterExit

Next == AppNext \/ WorkerNext

\* The application: the controller's handlers and the worker thread.
Spec == Init /\ [][Next]_vars

\* The application under fair scheduling: the worker thread keeps running (run's
\* loop polls the command queue every 0.2 s), process_worker_results is rescheduled
\* every 100 ms by its finally clause, and the after(500) callback fires. The user's
\* handlers and the interpreter exit are not forced. It starts from an installation
\* with pygame, sherpa_onnx and the default voice's model file.
InitFair == Init /\ HAS_PYGAME /\ HAS_TTS /\ files = {model_onnx(Amy)}
Fairness ==
  /\ WF_vars(WorkerNext)
  /\ WF_vars(ProcessResult)
  /\ WF_vars(ProcessEmpty)
  /\ WF_vars(InitVoice)
SpecFair == InitFair /\ [][Next]_vars /\ Fairness

\* A client of TTSWorker other than the application's handlers: any command dict,
\* with a voice outside the catalog or an action run() does not know.
ClientPut ==
  /\ nextId <= MaxCmds
  /\ \E action \in {"load_model", "generate", "quit", "noop"} :
       \/ /\ action = "load_model"
          /\ \E voice_name \in VoiceNames : Enqueue(action, voice_name, None, None)
       \/ /\ action = "generate"
          /\ \E file_path \in {None, "/out.wav"} : Enqueue(action, None, "hello", file_path)
       \/ /\ action \in {"quit", "noop"}
          /\ Enqueue(action, None, None, None)
  /\ UNCHANGED <<result_queue, workerVars, envVars, appVars,
                 observed, emitted, wlast, wprev, clast>>

WorkerSpecNext ==
  \/ ClientPut \/ WorkerNext
  \/ ProcessResult \/ ProcessEmpty \/ OnPause \/ OnResume \/ OnStop

\* The worker under any sequence of commands, its results processed by the controller
\* and played under the user's transport buttons (with pygame installed, which the
\* worker never uses).
InitWorker == Init /\ HAS_PYGAME
SpecWorker == InitWorker /\ [][WorkerSpecNext]_vars

\* ================================================================ claims
Types(out) == [i \in 1..Len(out) |-> out[i].type]
IsError(msg) == Len(msg) >= 5 /\ SubSeq(msg, 1, 5) = "Error"
Executed(action) == wlast.cmd.action = action

\* C1: the worker takes the commands in the order they were enqueued (the commands
\* still queued are exactly the ones after the last one executed, in order), and
\* the controller observes the results in the order of their commands (no result
\* still queued belongs to a command before the one observed last, no result of
\* a later command stands before one of an earlier command).
C1Fifo ==
  /\ \A i \in 1..Len(command_queue) : command_queue[i].id = wlast.cmd.id + i
  /\ nextId = wlast.cmd.id + Len(command_queue) + 1
  /\ \A i \in 1..Len(result_queue) :
       /\ observed <= result_queue[i].cid
       /\ result_queue[i].cid <= wlast.cmd.id
       /\ i > 1 => result_queue[i - 1].cid <= result_queue[i].cid

\* Results of the first and then of the second command have been observed.
C1Witness ==
  /\ observed = 2
  /\ clast.op = "process_worker_results"
  /\ wlast.cmd.id >= 2

\* C2: a load_model of the voice that the load_model executed just before it loaded
\* with success puts one Log and the VoiceReady of that voice, and calls neither
\* the download, nor the extraction, nor the engine constructor.
C2SameVoiceTwice ==
  (/\ Executed("load_model")
   /\ wprev.action = "load_model" /\ wprev.ok
   /\ wprev.voice_name = wlast.cmd.voice_name)
  => /\ Types(wlast.out) = <<"log", "model_loaded">>
     /\ wlast.out[2].voice = wlast.cmd.voice_name
     /\ wlast.calls = {}

C2Witness ==
  /\ Executed("load_model")
  /\ wprev.action = "load_model" /\ wprev.ok
  /\ wprev.voice_name = wlast.cmd.voice_name
  /\ Succeeded(wlast.out)

\* C3: a generate executed with no engine installed puts one Log and nothing else,
\* and no AudioReady is on the result channel before a VoiceReady has been put.
C3NoAudioBeforeVoice ==
  /\ (Executed("generate") /\ wlast.tts = None) => Types(wlast.out) = <<"log">>
  /\ "generation_complete" \in emitted => "model_loaded" \in emitted

C3Witness ==
  /\ Executed("generate") /\ wlast.tts = None
  /\ "model_loaded" \notin emitted

Stopped == ~is_playing
Playing == is_playing /\ ~is_paused
Paused == is_playing /\ is_paused

\* C4: the controller is in one of Stopped, Playing and Paused, and the Pause,
\* Resume and Stop buttons mirror it: in Stopped Pause and Resume are disabled, in
\* Playing Pause and Stop are enabled and Resume is not, in Paused Resume and Stop
\* are enabled and Pause is not. (The fast-forward button follows the Stop button.)
C4ButtonsMirrorState ==
  /\ is_paused => is_playing
  /\ Stopped => ~btn_pause /\ ~btn_resume
  /\ Playing => btn_pause /\ btn_stop /\ ~btn_resume
  /\ Paused => btn_resume /\ btn_stop /\ ~btn_pause
  /\ btn_ff = btn_stop

\* Paused has been reached by on_pause from Playing.
C4Witness == Paused /\ clast.op = "on_pause" /\ clast.pre.btn_pause

\* The case of C5: load_model of a catalog voice whose model file was on disk.
C5Case ==
  /\ Executed("load_model")
  /\ wlast.cmd.voice_name \in DOMAIN MODELS
  /\ model_onnx(wlast.cmd.voice_name) \in wlast.files
Acquisition == {"download_file", "extract_file"}
AllLogs(out) == \A i \in 1..Len(out) : out[i].type = "log"

\* C5 as stated, for the loads that succeed: in that case the worker puts exactly
\* one Log and then one VoiceReady of the voice, and calls neither download nor
\* extraction.
C5AsStated ==
  (C5Case /\ HAS_TTS /\ "OfflineTts" \notin wlast.failed)
         => /\ Types(wlast.out) = <<"log", "model_loaded">>
            /\ wlast.out[2].voice = wlast.cmd.voice_name
            /\ wlast.calls \cap Acquisition = {}

\* C5, amended: in that case the worker calls neither download nor extraction; a
\* load that succeeds puts Logs (one when the engine of that voice is already
\* installed, else the two of the engine construction) and then one VoiceReady of
\* the voice, and a load that fails (no sherpa_onnx, or the engine constructor
\* raises) puts Logs only.
C5InstalledVoice ==
  C5Case =>
    /\ wlast.calls \cap Acquisition = {}
    /\ IF HAS_TTS /\ "OfflineTts" \notin wlast.failed
       THEN LET n == Len(wlast.out) IN
            /\ n = (IF wlast.tts # None /\ wlast.current_voice_name = wlast.cmd.voice_name
                    THEN 2 ELSE 3)
            /\ AllLogs(SubSeq(wlast.out, 1, n - 1))
            /\ wlast.out[n] = ModelLoaded(wlast.cmd.voice_name)
       ELSE wlast.out # <<>> /\ AllLogs(wlast.out)

\* The engine was constructed from the installed files and VoiceReady was put.
C5Witness ==
  /\ C5Case
  /\ wlast.tts = None
  /\ Len(wlast.out) = 3 /\ wlast.out[3].type = "model_loaded"

\* The cases of C6: generate without a destination, with an engine, whose synthesis
\* returned; and the controller having processed an AudioReady of a temporary file.
C6Generated ==
  /\ Executed("generate") /\ Falsy(wlast.cmd.file_path)
  /\ wlast.tts # None
  /\ "generate" \notin wlast.failed
C6Processed ==
  /\ clast.op = "process_worker_results"
  /\ clast.res.type = "generation_complete" /\ clast.res.is_temp
AudioReadys(out) == {i \in 1..Len(out) : out[i].type = "generation_complete"}
\* The path is none that mkstemp returned before, and none a file dialog returns.
Fresh(path, w) ==
  /\ \A n \in 1..w.tmp_count : path # mkstemp(n)
  /\ path \notin DialogPaths /\ ~Falsy(path)
OneTemporary(w) ==
  /\ Cardinality(AudioReadys(w.out)) = 1
  /\ \A i \in AudioReadys(w.out) : w.out[i].is_temp /\ Fresh(w.out[i].file_path, w)
NowPlaying(path) == Playing /\ audio_file = path

\* C6 as stated: the generate puts exactly one AudioReady, temporary and with a fresh
\* path; and after the controller processed a temporary AudioReady it is Playing
\* that path.
C6AsStated ==
  /\ C6Generated => OneTemporary(wlast)
  /\ C6Processed => NowPlaying(clast.res.file_path)

\* C6, amended: when also the audio file is written without error, the generate puts
\* exactly one AudioReady, temporary and with a fresh path; and after the controller
\* processed a temporary AudioReady it is Playing that path, from any state, when
\* pygame is installed and loads and starts the file without raising, and is in the
\* state it was in otherwise.
C6TemporaryPlays ==
  /\ (C6Generated /\ "write" \notin wlast.failed) => OneTemporary(wlast)
  /\ C6Processed =>
       IF HAS_PYGAME /\ clast.ok
       THEN NowPlaying(clast.res.file_path)
       ELSE Media = clast.pre

\* A temporary AudioReady was processed while paused, and plays.
C6Witness ==
  /\ C6Processed /\ clast.ok
  /\ clast.pre.is_paused
  /\ NowPlaying(clast.res.file_path)

\* The cases of C7: generate with a destination, with an engine, whose synthesis
\* returned; and the controller having processed an AudioReady of a saved file.
C7Generated ==
  /\ Executed("generate") /\ ~Falsy(wlast.cmd.file_path)
  /\ wlast.tts # None
  /\ "generate" \notin wlast.failed
C7Processed ==
  /\ clast.op = "process_worker_results"
  /\ clast.res.type = "generation_complete" /\ ~clast.res.is_temp
Saved(w) ==
  /\ AudioReadys(w.out) # {}
  /\ \A i \in AudioReadys(w.out) :
       w.out[i].file_path = w.cmd.file_path /\ ~w.out[i].is_temp

\* C7 as stated: the generate puts AudioReady with the destination path and not
\* temporary; and processing such an AudioReady leaves the playback state, the
\* current file and the transport buttons as they were.
C7AsStated ==
  /\ C7Generated => Saved(wlast)
  /\ C7Processed => Media = clast.pre

\* C7, amended: the same, for a generate whose audio file is also written without error.
C7SavedKeepsPlayback ==
  /\ (C7Generated /\ "write" \notin wlast.failed) => Saved(wlast)
  /\ C7Processed => Media = clast.pre

\* A saved file's AudioReady was processed while playing.
C7Witness == C7Processed /\ clast.pre.is_playing /\ ~clast.pre.is_paused

\* C8: a load_model of a name outside the catalog puts one Log, which starts with
\* "Error", and leaves the engine and its voice name as they were.
C8Case == Executed("load_model") /\ wlast.cmd.voice_name \notin DOMAIN MODELS
C8UnknownVoice ==
  C8Case => /\ Types(wlast.out) = <<"log">>
            /\ IsError(wlast.out[1].msg)
            /\ tts = wlast.tts
            /\ current_voice_name = wlast.current_voice_name

\* An unknown voice was asked for while an engine was installed.
C8Witness == C8Case /\ wlast.tts # None /\ HAS_TTS

\* C9: on_stop run from Stopped (as on_gen_play runs it) changes neither the state
\* nor a button; after on_stop the controller is Stopped; and on_stop run twice
\* gives the state on_stop run once gives.
C9StopIdempotent ==
  /\ (clast.op \in {"on_stop", "on_gen_play"} /\ ~clast.pre.is_playing) => Media = clast.pre
  /\ (clast.op \in {"on_stop", "on_gen_play"} /\ HAS_PYGAME) => Stopped
  /\ on_stop(on_stop(Media)) = on_stop(Media)

\* on_stop has run from Stopped with pygame installed.
C9Witness == clast.op = "on_gen_play" /\ ~clast.pre.is_playing /\ HAS_PYGAME

\* C10, for the last Log of a generate that failed: after the controller processed,
\* while "Generate & Play" was disabled, the Log that ends the results of a generate
\* command, "Generate & Play" is enabled.
C10LogReenables ==
  (/\ clast.op = "process_worker_results"
   /\ clast.res.type = "log"
   /\ ~clast.gen
   /\ Executed("generate") /\ observed = wlast.cmd.id
   /\ result_queue = <<>>)
  => btn_gen_play

\* C11, for a generate that failed with sherpa_onnx installed: while the window is
\* open, "Generate & Play" disabled after such a generate is eventually enabled
\* again, the worker and the poll being scheduled fairly, in the runs in which the
\* user stays free to issue a further command.
C11NeverStuck ==
  (HAS_TTS /\ Executed("generate") /\ ~Succeeded(wlast.out) /\ ~btn_gen_play /\ ~closed)
    ~> (btn_gen_play \/ closed \/ nextId > MaxCmds)

Terminated == wpc \in {"done", "killed"}

\* C15: once on_closing has enqueued quit, the worker's loop eventually terminates,
\* the worker being scheduled fairly, whatever the command queue held.
C15WorkerTerminates == closed ~> Terminated

\* The loop ended on quit, which it reached after an earlier command.
C15Witness == closed /\ wpc = "done" /\ Executed("quit") /\ wprev.action # "none"

\* The commands of the controller that are outstanding: load_model and generate
\* commands still on the command queue, or with results still on the result queue
\* (a command is executed in one step of the worker).
Outstanding ==
  {command_queue[i].id : i \in {j \in 1..Len(command_queue) :
                                  command_queue[j].action \in {"load_model", "generate"}}}
  \cup {result_queue[i].cid : i \in {j \in 1..Len(result_queue) : result_queue[j].cid >= 1}}

\* C12: while the window is open, "Generate & Play" is disabled in every state in
\* which a load_model or generate command of the controller is outstanding.
C12DisabledWhileOutstanding ==
  (~closed /\ Outstanding # {}) => ~btn_gen_play

\* C13: the worker leaves its loop only by executing quit: as long as the command
\* executed last is not quit, whatever failed in the commands executed (unknown
\* voice, download, extraction, engine construction, synthesis, file write,
\* unrecognised action), the loop is running and takes the next command.
C13WorkerSurvives ==
  /\ ~Executed("quit") => (wpc \in {"init", "loop"} /\ running)
  /\ (wpc = "loop" /\ running /\ command_queue # <<>>) => ENABLED WorkerGet

\* The loop is running after a file-write error that followed a command with an
\* unrecognised action.
C13Witness ==
  /\ wpc = "loop" /\ running
  /\ Executed("generate") /\ "write" \in wlast.failed
  /\ wprev.action = "noop"

\* C14: when the worker's loop, once entered, has terminated, every load_model and
\* generate command enqueued before quit has been executed: none is left on the
\* command queue.
C14EarlierCommandsExecuted ==
  (Terminated /\ emitted # {}) =>
    \A i \in 1..Len(command_queue) : command_queue[i].action \notin {"load_model", "generate"}

\* The terminal result of an action.
TerminalOf(action) ==
  IF action = "load_model" THEN "model_loaded"
  ELSE IF action = "generate" THEN "generation_complete"
  ELSE "none"
\* Logs, then at most one terminal result, which is the action's and comes last.
LogsThenTerminal(w) ==
  \A i \in 1..Len(w.out) :
    w.out[i].type # "log" => (i = Len(w.out) /\ w.out[i].type = TerminalOf(w.cmd.action))

\* C16: the results of every command are Logs followed by at most one terminal
\* result, of the command's kind and last; and a command in which a step failed
\* (download, extraction, engine construction, synthesis, file write) puts at
\* least one Log and no terminal result.
C16FailuresBecomeLogs ==
  /\ LogsThenTerminal(wlast)
  /\ wlast.failed # {} => (wlast.out # <<>> /\ AllLogs(wlast.out))

\* The case of C17: load_model of a catalog voice whose model file was missing, in
\* which the download or the extraction failed.
C17Case ==
  /\ Executed("load_model")
  /\ wlast.cmd.voice_name \in DOMAIN MODELS
  /\ model_onnx(wlast.cmd.voice_name) \notin wlast.files
  /\ wlast.failed \cap Acquisition # {}

\* C17: in that case the worker puts Logs and no VoiceReady, does not call the
\* engine constructor and leaves the installed engine as it was.
C17AcquisitionFailureStops ==
  C17Case =>
    /\ wlast.out # <<>> /\ AllLogs(wlast.out)
    /\ "OfflineTts" \notin wlast.calls
    /\ tts = wlast.tts /\ current_voice_name = wlast.current_voice_name

\* C18: after Stop from Playing or Paused the controller is Stopped and holds no
\* artifact, and it holds none in any Stopped state.
C18StopClearsArtifact ==
  /\ (clast.op = "on_stop" /\ clast.pre.is_playing) => (Stopped /\ audio_file = None)
  /\ Stopped => audio_file = None

\* C19: an engine is installed exactly when current_voice_name is a catalog name,
\* and it is the engine of that voice; and after a load_model that put VoiceReady
\* of a name the installed engine is that name's, whatever engine was there before.
C19OneEngineOneVoice ==
  /\ tts # None <=> current_voice_name \in DOMAIN MODELS
  /\ tts # None => tts = model_onnx(current_voice_name)
  /\ (Executed("load_model") /\ Succeeded(wlast.out)) =>
       /\ wlast.out[Len(wlast.out)].voice = wlast.cmd.voice_name
       /\ current_voice_name = wlast.cmd.voice_name
       /\ tts = model_onnx(wlast.cmd.voice_name)

\* A load has replaced the engine of another voice.
C19Witness ==
  /\ Executed("load_model") /\ Succeeded(wlast.out)
  /\ wlast.tts # None /\ tts # wlast.tts

\* C20: a load_model that puts no VoiceReady leaves the engine and its voice name as
\* they were, and the generate executed next runs on the engine that was installed
\* before that load: it is synthesized when there was one.
C20FailedLoadKeepsEngine ==
  /\ (Executed("load_model") /\ ~Succeeded(wlast.out)) =>
       (tts = wlast.tts /\ current_voice_name = wlast.current_voice_name)
  /\ (Executed("generate") /\ wprev.action = "load_model" /\ ~wprev.ok) =>
       /\ wlast.tts = wprev.tts
       /\ wprev.tts # None => "generate" \in wlast.calls

\* The engine constructor raised while an engine was installed, and a generate
\* followed.
C20Witness ==
  /\ Executed("generate") /\ wprev.action = "load_model" /\ ~wprev.ok
  /\ wprev.tts # None
  /\ "generate" \in wlast.calls

====
